---- MODULE Spec2Model ----
(***************************************************************************)
(* Model of the Boxing crate (src/lib.rs): a Box owns a message and a      *)
(* Formatting, is configured by a chain of consuming setters and is        *)
(* consumed once by to_string, which draws the message inside a border.    *)
(*                                                                         *)
(* Strings are sequences of one-unit tokens (one token = one byte of an    *)
(* ASCII message; the box glyphs are one token each).  str::lines is       *)
(* modelled by what it does: split after every LF, drop the LF and then    *)
(* one CR in front of it.                                                  *)
(***************************************************************************)
EXTENDS Naturals, Integers, Sequences, FiniteSets

VARIABLES message, format, pc, boxed_message, locals, hist

vars == <<message, format, pc, boxed_message, locals, hist>>

---------------------------------------------------------------------------
(* Bounds of the model *)

MaxLen == 2
MaxPad == 4
MaxSide == 1
MaxW == 1

(* arguments the setters are called with *)
PadArgs == 0..MaxPad
SideArgs == {0, MaxSide}
WidthArgs == {MaxW}

(* Program constants *)

DEFAULT_PADDING == 2
DEFAULT_MAX_WIDTH == 80

VERTICAL == "|"
HORIZONTAL == "-"
TOP_LEFT == "TL"
TOP_RIGHT == "TR"
BOTTOM_LEFT == "BL"
BOTTOM_RIGHT == "BR"

(* Characters of a message: a letter, carriage return, line feed *)
LF == "LF"
CR == "CR"
SPACE == " "
Alphabet == {"a", CR, LF}

Messages == UNION {[1..n -> Alphabet] : n \in 0..MaxLen}

Alignment == {"Left", "Right"}

(* Option<usize> *)
None == [some |-> FALSE, val |-> 0]
Some(n) == [some |-> TRUE, val |-> n]
unwrap_or(opt, default) == IF opt.some THEN opt.val ELSE default

Formatting_new ==
    [padding |-> DEFAULT_PADDING,
     alignment |-> "Left",
     max_width |-> DEFAULT_MAX_WIDTH,
     padding_left |-> None,
     padding_right |-> None,
     padding_top |-> None,
     padding_bottom |-> None]

---------------------------------------------------------------------------
(* Pure helpers of lib.rs *)

(* faulty variant of max: the smaller of the two *)
Min2(a, b) == IF a <= b THEN a ELSE b

Max2(a, b) == IF a >= b THEN a ELSE b

Repeat(tok, n) == [i \in 1..n |-> tok]

RECURSIVE Concat(_)
Concat(seqs) ==
    IF seqs = <<>> THEN <<>> ELSE Head(seqs) \o Concat(Tail(seqs))

(* str::split_inclusive('\n'): pieces end with their LF, the last piece may
   not; no piece is empty *)
RECURSIVE split_inclusive(_)
split_inclusive(s) ==
    IF s = <<>> THEN <<>>
    ELSE LET idx == {i \in 1..Len(s) : s[i] = LF}
         IN IF idx = {} THEN <<s>>
            ELSE LET k == CHOOSE i \in idx : \A j \in idx : i <= j
                 IN <<SubSeq(s, 1, k)>> \o split_inclusive(SubSeq(s, k + 1, Len(s)))

(* the closure of str::lines: strip a final LF, and then a final CR; a CR not
   followed by LF stays in the line *)
strip_line_ending(piece) ==
    IF piece[Len(piece)] # LF THEN piece
    ELSE LET l == SubSeq(piece, 1, Len(piece) - 1)
         IN IF l # <<>> /\ l[Len(l)] = CR THEN SubSeq(l, 1, Len(l) - 1) ELSE l

(* faulty variant of lines: the empty string has one empty line *)
lines_never_empty(s) ==
    LET pieces == IF s = <<>> THEN <<<<LF>>>> ELSE split_inclusive(s)
    IN [i \in 1..Len(pieces) |-> strip_line_ending(pieces[i])]

lines(s) ==
    LET pieces == split_inclusive(s)
    IN [i \in 1..Len(pieces) |-> strip_line_ending(pieces[i])]

(* faulty variant of the loop of max_line_length: it stops after the first
   line *)
max_fold_first(ls, max_length) ==
    IF ls = <<>> THEN max_length ELSE Max2(max_length, Len(Head(ls)))

RECURSIVE max_fold(_, _)
max_fold(ls, max_length) ==
    IF ls = <<>> THEN max_length
    ELSE max_fold(Tail(ls), Max2(max_length, Len(Head(ls))))

max_line_length(msg) == max_fold(lines(msg), 0)

gen_whitespace(num) == Repeat(SPACE, num)

gen_top(length) ==
    <<TOP_LEFT>> \o Repeat(HORIZONTAL, length) \o <<TOP_RIGHT>> \o <<LF>>

gen_bottom(length) ==
    <<BOTTOM_LEFT>> \o Repeat(HORIZONTAL, length) \o <<BOTTOM_RIGHT>> \o <<LF>>

(* faulty variant of gen_vertical_padding: an inclusive range, one row more *)
gen_vertical_padding_inclusive(pad, length) ==
    Concat([i \in 1..(pad + 1) |->
              <<VERTICAL>> \o gen_whitespace(length) \o <<VERTICAL, LF>>])

gen_vertical_padding(pad, length) ==
    Concat([i \in 1..pad |->
              <<VERTICAL>> \o gen_whitespace(length) \o <<VERTICAL, LF>>])

(* usize arithmetic of the two pad computations; the value is negative
   exactly when the subtraction underflows *)
left_padding_amount(fmt, line_length, max_length) ==
    IF fmt.alignment = "Left" THEN fmt.padding
    ELSE (fmt.padding + max_length) - line_length

right_padding_amount(fmt, line_length, max_length) ==
    IF fmt.alignment = "Right" THEN fmt.padding
    ELSE (fmt.padding + max_length) - line_length

gen_left_padding(fmt, line_length, max_length) ==
    gen_whitespace(left_padding_amount(fmt, line_length, max_length))

gen_right_padding(fmt, line_length, max_length) ==
    gen_whitespace(right_padding_amount(fmt, line_length, max_length))

(* faulty variant of the closure of wrap_lines: the line is cut at max_width *)
wrap_line_truncating(line, fmt, max_length) ==
    LET cut == SubSeq(line, 1, Min2(Len(line), fmt.max_width))
    IN <<VERTICAL>> \o gen_left_padding(fmt, Len(cut), max_length)
                    \o cut
                    \o gen_right_padding(fmt, Len(cut), max_length)
                    \o <<VERTICAL, LF>>

wrap_line(line, fmt, max_length) ==
    <<VERTICAL>> \o gen_left_padding(fmt, Len(line), max_length)
                 \o line
                 \o gen_right_padding(fmt, Len(line), max_length)
                 \o <<VERTICAL, LF>>

wrap_lines(msg, fmt, max_length) ==
    LET ls == lines(msg)
    IN Concat([i \in 1..Len(ls) |-> wrap_line(ls[i], fmt, max_length)])

(* a subtraction of usize values below zero aborts the render *)
underflows(msg, fmt, max_length) ==
    LET ls == lines(msg)
    IN \E i \in 1..Len(ls) :
          \/ left_padding_amount(fmt, Len(ls[i]), max_length) < 0
          \/ right_padding_amount(fmt, Len(ls[i]), max_length) < 0

(* faulty variant of the locals of to_string: top and bottom take the whole
   global padding *)
to_string_locals_unhalved(msg, fmt) ==
    [max_length |-> max_line_length(msg),
     top_padding |-> unwrap_or(fmt.padding_top, fmt.padding),
     bottom_padding |-> unwrap_or(fmt.padding_bottom, fmt.padding),
     right_padding |-> unwrap_or(fmt.padding_right, fmt.padding),
     left_padding |-> unwrap_or(fmt.padding_left, fmt.padding)]

(* the locals of Box::to_string *)
to_string_locals(msg, fmt) ==
    [max_length |-> max_line_length(msg),
     top_padding |-> unwrap_or(fmt.padding_top, fmt.padding \div 2),
     bottom_padding |-> unwrap_or(fmt.padding_bottom, fmt.padding \div 2),
     right_padding |-> unwrap_or(fmt.padding_right, fmt.padding),
     left_padding |-> unwrap_or(fmt.padding_left, fmt.padding)]

(* faulty variant of the concatenation of to_string: the content comes before
   the top padding *)
to_string_result_reordered(msg, fmt) ==
    LET l == to_string_locals(msg, fmt)
        total_horizontal_pad == l.right_padding + l.left_padding
    IN gen_top(l.max_length + l.right_padding + l.left_padding)
       \o wrap_lines(msg, fmt, l.max_length)
       \o gen_vertical_padding(l.top_padding, l.max_length + total_horizontal_pad)
       \o gen_vertical_padding(l.bottom_padding,
                               l.max_length + l.right_padding + l.left_padding)
       \o gen_bottom(l.max_length + l.left_padding + l.right_padding)

to_string_result(msg, fmt) ==
    LET l == to_string_locals(msg, fmt)
        total_horizontal_pad == l.right_padding + l.left_padding
    IN gen_top(l.max_length + l.right_padding + l.left_padding)
       \o gen_vertical_padding(l.top_padding, l.max_length + total_horizontal_pad)
       \o wrap_lines(msg, fmt, l.max_length)
       \o gen_vertical_padding(l.bottom_padding,
                               l.max_length + l.right_padding + l.left_padding)
       \o gen_bottom(l.max_length + l.left_padding + l.right_padding)

---------------------------------------------------------------------------
(* State machine: Box::new, the setters, to_string *)

NoLocals ==
    [max_length |-> 0, top_padding |-> 0, bottom_padding |-> 0,
     right_padding |-> 0, left_padding |-> 0]

(* hist records the calls made on the builder: the argument of the last call
   of padding (the default when never called) and of each side's setter, and
   whether padding was called after a side setter *)
HistInit ==
    [padding |-> DEFAULT_PADDING, left |-> None, right |-> None,
     top |-> None, bottom |-> None, padding_after_side |-> FALSE]

Init ==
    /\ message \in Messages
    /\ format = Formatting_new
    /\ pc = "building"
    /\ boxed_message = <<>>
    /\ locals = NoLocals
    /\ hist = HistInit

(* faulty variant of padding: setting the global padding clears the side
   overrides *)
set_padding_clearing(fmt, pad) ==
    [fmt EXCEPT !.padding = pad,
                !.padding_left = None, !.padding_right = None,
                !.padding_top = None, !.padding_bottom = None]

set_padding(fmt, pad) == [fmt EXCEPT !.padding = pad]

padding(pad) ==
    /\ pc = "building"
    /\ format' = set_padding(format, pad)
    /\ hist' = [hist EXCEPT
                  !.padding = pad,
                  !.padding_after_side =
                      \/ hist.padding_after_side
                      \/ hist.left.some \/ hist.right.some
                      \/ hist.top.some \/ hist.bottom.some]
    /\ UNCHANGED <<message, pc, boxed_message, locals>>

alignment(align) ==
    /\ pc = "building"
    /\ format' = [format EXCEPT !.alignment = align]
    /\ UNCHANGED <<message, pc, boxed_message, locals, hist>>

max_width(width) ==
    /\ pc = "building"
    /\ format' = [format EXCEPT !.max_width = width]
    /\ UNCHANGED <<message, pc, boxed_message, locals, hist>>

padding_bottom(pad) ==
    /\ pc = "building"
    /\ format' = [format EXCEPT !.padding_bottom = Some(pad)]
    /\ hist' = [hist EXCEPT !.bottom = Some(pad)]
    /\ UNCHANGED <<message, pc, boxed_message, locals>>

padding_top(pad) ==
    /\ pc = "building"
    /\ format' = [format EXCEPT !.padding_top = Some(pad)]
    /\ hist' = [hist EXCEPT !.top = Some(pad)]
    /\ UNCHANGED <<message, pc, boxed_message, locals>>

padding_left(pad) ==
    /\ pc = "building"
    /\ format' = [format EXCEPT !.padding_left = Some(pad)]
    /\ hist' = [hist EXCEPT !.left = Some(pad)]
    /\ UNCHANGED <<message, pc, boxed_message, locals>>

padding_right(pad) ==
    /\ pc = "building"
    /\ format' = [format EXCEPT !.padding_right = Some(pad)]
    /\ hist' = [hist EXCEPT !.right = Some(pad)]
    /\ UNCHANGED <<message, pc, boxed_message, locals>>

to_string ==
    /\ pc = "building"
    /\ locals' = to_string_locals(message, format)
    /\ IF underflows(message, format, locals'.max_length)
       THEN /\ pc' = "panicked"
            /\ boxed_message' = <<>>
       ELSE /\ pc' = "rendered"
            /\ boxed_message' = to_string_result(message, format)
    /\ UNCHANGED <<message, format, hist>>

Next ==
    \/ \E pad \in PadArgs : padding(pad)
    \/ \E align \in Alignment : alignment(align)
    \/ \E width \in WidthArgs : max_width(width)
    \/ \E pad \in SideArgs : padding_bottom(pad)
    \/ \E pad \in SideArgs : padding_top(pad)
    \/ \E pad \in SideArgs : padding_left(pad)
    \/ \E pad \in SideArgs : padding_right(pad)
    \/ to_string

Spec == Init /\ [][Next]_vars

---------------------------------------------------------------------------
(* Vocabulary of the properties: the message's lines and the output's rows,
   defined by the positions of the line feeds *)

(* the positions of the line feeds of s, ascending *)
LFs(s) ==
    LET S == {i \in 1..Len(s) : s[i] = LF}
        rank == [i \in S |-> Cardinality({j \in S : j <= i})]
    IN [k \in 1..Cardinality(S) |-> CHOOSE i \in S : rank[i] = k]

(* a trailing LF ends the last line and opens no new one; a line ends before
   its LF, or before the CR LF pair, or at the end of the message *)
MsgLines(s) ==
    LET p == LFs(s)
        n == Len(p) + (IF s # <<>> /\ s[Len(s)] # LF THEN 1 ELSE 0)
        start(k) == IF k = 1 THEN 1 ELSE p[k - 1] + 1
        end(k) == IF k > Len(p) THEN Len(s)
                  ELSE IF p[k] - 1 >= start(k) /\ s[p[k] - 1] = CR
                       THEN p[k] - 2 ELSE p[k] - 1
    IN [k \in 1..n |-> SubSeq(s, start(k), end(k))]

NumLines(s) == Len(MsgLines(s))

SetMax(S) == CHOOSE m \in S : \A x \in S : x <= m

ContentWidth(s) ==
    LET ls == MsgLines(s) IN SetMax({0} \cup {Len(ls[k]) : k \in 1..Len(ls)})

(* the rows of an output: the text before each LF *)
OutRows(out) ==
    LET p == LFs(out)
    IN [k \in 1..Len(p) |->
          SubSeq(out, IF k = 1 THEN 1 ELSE p[k - 1] + 1, p[k] - 1)]

NewlineTerminated(out) == out = <<>> \/ out[Len(out)] = LF

Fill(tok, n) == [i \in 1..n |-> tok]

TopBorderRow(w) == <<TOP_LEFT>> \o Fill(HORIZONTAL, w) \o <<TOP_RIGHT>>
BottomBorderRow(w) == <<BOTTOM_LEFT>> \o Fill(HORIZONTAL, w) \o <<BOTTOM_RIGHT>>
PaddingRow(w) == <<VERTICAL>> \o Fill(SPACE, w) \o <<VERTICAL>>
ContentRow(lp, text, rp) ==
    <<VERTICAL>> \o Fill(SPACE, lp) \o text \o Fill(SPACE, rp) \o <<VERTICAL>>

(* a row of some width with the given shape *)
IsTopBorder(row) == Len(row) >= 2 /\ row = TopBorderRow(Len(row) - 2)
IsBottomBorder(row) == Len(row) >= 2 /\ row = BottomBorderRow(Len(row) - 2)
IsPadding(row) == Len(row) >= 2 /\ row = PaddingRow(Len(row) - 2)
Carries(row, text) ==
    /\ Len(row) >= 2 + Len(text)
    /\ \E lp \in 0..(Len(row) - 2 - Len(text)) :
          row = ContentRow(lp, text, Len(row) - 2 - Len(text) - lp)

(* the effective padding of each side, from the calls made on the builder *)
EffLeft == IF hist.left.some THEN hist.left.val ELSE hist.padding
EffRight == IF hist.right.some THEN hist.right.val ELSE hist.padding
EffTop == IF hist.top.some THEN hist.top.val ELSE hist.padding \div 2
EffBottom == IF hist.bottom.some THEN hist.bottom.val ELSE hist.padding \div 2

NoSideSetterCalled ==
    ~hist.left.some /\ ~hist.right.some /\ ~hist.top.some /\ ~hist.bottom.some

Rendered == pc = "rendered"
Rows == OutRows(boxed_message)
W == ContentWidth(message)
N == NumLines(message)
Interior == W + EffLeft + EffRight

---------------------------------------------------------------------------
(* C1: every row of the rendered output has the same length, namely
   contentWidth + leftPadding + rightPadding interior characters plus one
   border character on each side, with the effective side paddings. *)
C1_UniformWidth ==
    LET R == Rows
    IN
        Rendered => \A k \in 1..Len(R) : Len(R[k]) = Interior + 2

(* C2: the content row of every message line is border, leftPad spaces, the
   line, rightPad spaces, border; Left alignment puts the width deficit on the
   right, Right alignment on the left, and the fixed pads are the effective
   left and right paddings. *)
C2_ContentRowLayout ==
    LET R == Rows
    IN
        Rendered =>
          /\ Len(R) >= 1 + EffTop + N
          /\ \A i \in 1..N :
               LET line == MsgLines(message)[i]
                   deficit == W - Len(line)
               IN R[1 + EffTop + i] =
                    IF format.alignment = "Left"
                    THEN ContentRow(EffLeft, line, EffRight + deficit)
                    ELSE ContentRow(EffLeft + deficit, line, EffRight)

(* C3: with only the global padding p and no side setter called, the output
   has exactly p div 2 padding rows above the content and p div 2 below it,
   every content row has p columns of padding on the anchored side, and the
   borders have interior width contentWidth + 2 p. *)
C3_DefaultPaddingSplit ==
    LET R == Rows
    IN
        (Rendered /\ NoSideSetterCalled) =>
          LET p == hist.padding
              v == p \div 2
              ls == MsgLines(message)
          IN /\ Len(R) = 2 + v + N + v
             /\ R[1] = TopBorderRow(W + 2 * p)
             /\ \A k \in 1..v : R[1 + k] = PaddingRow(W + 2 * p)
             /\ \A i \in 1..N :
                  R[1 + v + i] =
                    IF format.alignment = "Left"
                    THEN ContentRow(p, ls[i], p + (W - Len(ls[i])))
                    ELSE ContentRow(p + (W - Len(ls[i])), ls[i], p)
             /\ \A k \in 1..v : R[1 + v + N + k] = PaddingRow(W + 2 * p)
             /\ R[2 + v + N + v] = BottomBorderRow(W + 2 * p)

C3_Witness ==
    /\ Rendered /\ NoSideSetterCalled
    /\ hist.padding = 3
    /\ N >= 2 /\ W >= 1

(* C4: at render time the effective padding of a side is the argument of the
   last call of that side's setter when it was called, whether padding(n) was
   called before or after it, and is otherwise derived from the last global
   padding (n for left and right, n div 2 for top and bottom). *)
C4_OverridePrecedence ==
    LET R == Rows
    IN
        Rendered =>
          /\ locals.top_padding = EffTop
          /\ locals.bottom_padding = EffBottom
          /\ locals.left_padding = EffLeft
          /\ locals.right_padding = EffRight
          /\ Len(R) = 2 + EffTop + N + EffBottom
          /\ R[1] = TopBorderRow(Interior)
          /\ R[Len(R)] = BottomBorderRow(Interior)

C4_Witness ==
    /\ Rendered
    /\ hist.padding_after_side
    /\ hist.left.some /\ hist.left.val # hist.padding
    /\ hist.top.some /\ hist.top.val # hist.padding \div 2
    /\ ~hist.right.some /\ ~hist.bottom.some
    /\ hist.padding # DEFAULT_PADDING

(* C5: the output is, in this order, one top border row, topPadding padding
   rows, one content row per message line in the original order, bottomPadding
   padding rows and one bottom border row, every row newline-terminated; the
   i-th content row carries the text of the i-th message line. *)
C5_CompositionOrder ==
    LET R == Rows
    IN
        Rendered =>
          /\ NewlineTerminated(boxed_message)
          /\ Len(R) = 2 + EffTop + EffBottom + N
          /\ IsTopBorder(R[1])
          /\ \A k \in 1..EffTop : IsPadding(R[1 + k])
          /\ \A i \in 1..N : Carries(R[1 + EffTop + i], MsgLines(message)[i])
          /\ \A k \in 1..EffBottom : IsPadding(R[1 + EffTop + N + k])
          /\ IsBottomBorder(R[Len(R)])

C5_Witness ==
    /\ Rendered
    /\ N >= 2
    /\ MsgLines(message)[1] # MsgLines(message)[2]
    /\ EffTop >= 1 /\ EffBottom >= 1 /\ EffTop # EffBottom

(* C6, as stated: rendering the empty message still emits a content row
   (border, leftPadding + rightPadding spaces, border) in addition to the
   topPadding + bottomPadding padding rows. *)
C6_EmptyMessageContentRow ==
    LET R == Rows
    IN
        (Rendered /\ message = <<>>) =>
          /\ locals.max_length = 0
          /\ R[1] = TopBorderRow(EffLeft + EffRight)
          /\ R[Len(R)] = BottomBorderRow(EffLeft + EffRight)
          /\ Len(R) = 2 + EffTop + EffBottom + 1
          /\ \A k \in 2..(Len(R) - 1) : R[k] = PaddingRow(EffLeft + EffRight)

(* C6, amended: rendering the empty message gives content width 0 and a box
   whose borders have interior width leftPadding + rightPadding, and emits no
   content row: between the borders there are only the topPadding +
   bottomPadding padding rows. *)
C6_EmptyMessage ==
    LET R == Rows
    IN
        (Rendered /\ message = <<>>) =>
          /\ locals.max_length = 0
          /\ R[1] = TopBorderRow(EffLeft + EffRight)
          /\ R[Len(R)] = BottomBorderRow(EffLeft + EffRight)
          /\ Len(R) = 2 + EffTop + EffBottom
          /\ \A k \in 2..(Len(R) - 1) : R[k] = PaddingRow(EffLeft + EffRight)

C6_Witness ==
    /\ Rendered /\ message = <<>>
    /\ hist.left.some /\ EffLeft # hist.padding
    /\ EffTop + EffBottom >= 1

(* C7: the output does not depend on max_width: the same message rendered with
   any other max_width, the default included, gives the identical string, and
   a line longer than max_width is neither wrapped nor truncated. *)
C7_MaxWidthNoOp ==
    LET R == Rows
    IN
        Rendered =>
          /\ \A w \in (WidthArgs \cup {DEFAULT_MAX_WIDTH}) \ {format.max_width} :
               LET other == [format EXCEPT !.max_width = w]
               IN /\ ~underflows(message, other, max_line_length(message))
                  /\ to_string_result(message, other) = boxed_message
          /\ Len(R) = 2 + EffTop + EffBottom + N
          /\ R[1] = TopBorderRow(Interior)
          /\ \A i \in 1..N : Carries(R[1 + EffTop + i], MsgLines(message)[i])

C7_Witness ==
    /\ Rendered
    /\ format.max_width < W
    /\ format.max_width # DEFAULT_MAX_WIDTH

(* C8: render never fails: it always returns a string, and for every message
   line the deficit contentWidth - lineLength and both pad amounts are
   non-negative at every step of their computation. *)
C8_NoFailure ==
    /\ pc # "panicked"
    /\ Rendered =>
         \A i \in 1..N :
            LET len == Len(MsgLines(message)[i])
            IN /\ locals.max_length - len >= 0
               /\ format.padding + locals.max_length >= len
               /\ left_padding_amount(format, len, locals.max_length) >= 0
               /\ right_padding_amount(format, len, locals.max_length) >= 0

C8_Witness ==
    /\ Rendered
    /\ format.padding = 0
    /\ format.alignment = "Right"
    /\ \E i \in 1..N : Len(MsgLines(message)[i]) < W

(* C9: max_line_length is the maximum length over the message's lines (the
   newline-free runs; a trailing newline adds no line; the empty message has
   no line and width 0), whatever the alignment and paddings, and this one
   value is the content width of both borders, all padding rows and all
   content rows. *)
C9_Metrics ==
    LET R == Rows
    IN
        /\ max_line_length(message) = W
        /\ Len(lines(message)) = N
        /\ Rendered =>
             /\ locals.max_length = W
             /\ R[1] = TopBorderRow(W + locals.left_padding + locals.right_padding)
             /\ R[Len(R)] =
                   BottomBorderRow(W + locals.left_padding + locals.right_padding)
             /\ \A k \in (2..(1 + EffTop)) \cup ((2 + EffTop + N)..(Len(R) - 1)) :
                   R[k] = PaddingRow(W + locals.left_padding + locals.right_padding)
             /\ \A i \in 1..N :
                   /\ Len(R[1 + EffTop + i]) >= W + 2
                   /\ Len(R[1 + EffTop + i]) = Len(R[1 + EffTop + 1])

C9_Witness ==
    /\ Rendered
    /\ message # <<>> /\ message[Len(message)] = LF
    /\ N = Len(message) - 1 /\ W >= 1
    /\ format.alignment = "Right"
    /\ hist.padding # DEFAULT_PADDING
    /\ EffTop >= 1

(* C10: gen_vertical_padding(n, w) is exactly n rows of border, w spaces,
   border, newline (the empty string for n = 0), and render uses it for the
   top with n = effective top padding and for the bottom with n = effective
   bottom padding, both with w = contentWidth + leftPadding + rightPadding. *)
PaddingBlockOK(block, n, w) ==
    LET rows == OutRows(block)
        row == PaddingRow(w)
    IN /\ Len(block) = n * (w + 3)
       /\ NewlineTerminated(block)
       /\ Len(rows) = n
       /\ \A k \in 1..n : rows[k] = row

C10_VerticalPadding ==
    LET R == Rows
    IN
        Rendered =>
          LET top == gen_vertical_padding(EffTop, Interior)
              bottom == gen_vertical_padding(EffBottom, Interior)
              total == Len(boxed_message)
              row == PaddingRow(Interior)
          IN /\ PaddingBlockOK(top, EffTop, Interior)
             /\ PaddingBlockOK(bottom, EffBottom, Interior)
             /\ SubSeq(boxed_message, Interior + 4, Interior + 3 + Len(top)) = top
             /\ SubSeq(boxed_message, total - (Interior + 3) - Len(bottom) + 1,
                       total - (Interior + 3)) = bottom
             /\ \A k \in 1..EffTop : R[1 + k] = row
             /\ \A k \in 1..EffBottom : R[1 + EffTop + N + k] = row

C10_Witness ==
    /\ Rendered
    /\ EffTop = 0 /\ EffBottom = 2
    /\ hist.left.some /\ EffLeft # hist.padding
    /\ W >= 1

====
